---- MODULE Spec2Model ----
(***************************************************************************)
(* Model of the adapter registry (BuilderFactory), its sequential batch    *)
(* runner (BuildAllExtensions), the three-phase lifecycle driver           *)
(* (runCommonBuild) and the Cargo adapter's Build (Spec); the failure      *)
(* wrapping of the built-in adapters (SpecAdapters); the install resolver  *)
(* finalizeNativeExtensions (SpecInstall); the tool checker                *)
(* CheckRequiredTools (SpecTools); and the registry NewBuilderFactory      *)
(* makes (SpecFactory).                                                    *)
(*                                                                         *)
(* File names and paths are sequences of one-character strings, so that    *)
(* filepath.Base is computed and not assumed.  Errors and results are      *)
(* records of one shape each; NoErr and NilResult stand for Go's nil.      *)
(***************************************************************************)
EXTENDS Integers, Sequences, FiniteSets, TLC

\* ---------------------------------------------------------------- bounds
MaxBuilders == 2
MaxTargets == 2
MaxLibs == 2
MaxBuilt == 2
MaxRequirements == 3
MaxVersionNumber == 10

\* ---------------------------------------------------------------- errors
NoErr == [kind |-> "nil", detail |-> <<>>]

Canceled == [kind |-> "context canceled", detail |-> <<>>]

DeadlineExceeded == [kind |-> "context deadline exceeded", detail |-> <<>>]

CtxErrs == {Canceled, DeadlineExceeded}

NoBuilderErr(filename) == [kind |-> "no builder found for extension file", detail |-> filename]

PhaseErr(phase) == [kind |-> phase, detail |-> <<>>]

\* ---------------------------------------------------------------- results
NilResult == [isNil |-> TRUE, Success |-> FALSE, Error |-> NoErr, Extensions |-> <<>>]

NewResult == [isNil |-> FALSE, Success |-> FALSE, Error |-> NoErr, Extensions |-> <<>>]

FailedResult(err) == [isNil |-> FALSE, Success |-> FALSE, Error |-> err, Extensions |-> <<>>]

NoRet == [result |-> NilResult, err |-> NoErr]

\* ---------------------------------------------------------------- paths
Sep == "/"

RECURSIVE StripTrailingSeps(_)
StripTrailingSeps(p) ==
    IF Len(p) > 0 /\ p[Len(p)] = Sep
    THEN StripTrailingSeps(SubSeq(p, 1, Len(p) - 1))
    ELSE p

RECURSIVE LastSep(_, _)
LastSep(p, k) ==
    IF k = 0 THEN 0
    ELSE IF p[k] = Sep THEN k
    ELSE LastSep(p, k - 1)

BaseIdentity(path) == path

Base(path) ==
    IF path = <<>> THEN <<".">>
    ELSE LET s == StripTrailingSeps(path)
             t == SubSeq(s, LastSep(s, Len(s)) + 1, Len(s))
         IN IF t = <<>> THEN <<Sep>> ELSE t

\* ---------------------------------------------------------------- adapters
FileA == <<"a">>
FileB == <<"b">>

AdapterX == [name |-> "X", kind |-> "common", claims |-> {FileA}]

AdapterY == [name |-> "Y", kind |-> "cargo", claims |-> {FileA, FileB}]

AdapterZ == [name |-> "Z", kind |-> "custom", claims |-> {FileB}]

Adapters == {AdapterX, AdapterY, AdapterZ}

CanBuild(builder, filename) == filename \in builder.claims

Targets == { <<"e", "/", "a">>, <<"b", "/">>, <<"u">> }

LookupPaths == Targets \cup { <<>>, <<"/">>, <<"a">>, <<"a", "/", "u">> }

\* ---------------------------------------------------------------- state
VARIABLES
    builders,       \* BuilderFactory.builders
    lookup,         \* return value of the latest BuilderFor call made by a caller
    pc,             \* position of the BuildAllExtensions call
    ctxErr,         \* ctx.Err()
    stopOnFailure,  \* config.StopOnFailure
    literal,        \* the fields the caller's BuildConfig literal sets
    extensions,     \* the extensions argument
    i,              \* index of the range loop (1-based)
    results,        \* results
    firstError,     \* firstError
    builder,        \* index in builders of the adapter whose Build is running
    result,         \* the BuildResult the running Build accumulates
    buildRet,       \* what the finished Build returned: (result, err)
    phases,         \* phase functions the running Build has called, in order, with what each returned
    invoked,        \* Build invocations of this batch: (target, builder)
    canBuildCalls,  \* CanBuild evaluations of this batch
    adapterRun,     \* one built-in adapter's Build: its sub-steps, log and error
    install,        \* the last finalizeNativeExtensions call: inputs, copies, return
    toolCheck       \* the last CheckRequiredTools call: inputs and return

vars == <<builders, lookup, pc, ctxErr, stopOnFailure, literal, extensions, i, results,
          firstError, builder, result, buildRet, phases, invoked, canBuildCalls,
          adapterRun, install, toolCheck>>

\* The entry points outside the registry and the batch runner.
sideVars == <<adapterRun, install, toolCheck>>

batchVars == <<pc, ctxErr, stopOnFailure, literal, extensions, i, results, firstError,
               builder, result, buildRet, phases, invoked, canBuildCalls>>

NoAdapterRun == [name |-> "", steps |-> <<>>, step |-> 0, destPath |-> FALSE,
                 cleanFirst |-> FALSE, verbose |-> FALSE, output |-> <<>>,
                 phase |-> "", err |-> <<>>, cause |-> "", failure |-> ""]

NoFiles == [p \in {} |-> <<>>]

NoInstall == [pc |-> "new",
              config |-> [GemDir |-> <<>>, DestPath |-> <<>>, LibDir |-> <<>>,
                          RubyVersion |-> <<>>],
              extensionFile |-> <<>>, extensionDir |-> <<>>,
              descriptor |-> [readable |-> FALSE, call |-> "none", name |-> <<>>],
              built |-> <<>>, k |-> 1, relDest |-> <<>>, pending |-> <<>>,
              before |-> NoFiles, files |-> NoFiles, dirs |-> {},
              copies |-> <<>>, paths |-> <<>>, err |-> ""]

NoToolCheck == [called |-> FALSE, path |-> {}, requirements |-> <<>>,
                err |-> <<>>]

\* A BuildConfig literal: the fields the caller wrote, each with its value.
ZeroConfig == [f \in {} |-> FALSE]

NoLookup == [done |-> FALSE, path |-> <<>>, found |-> FALSE, index |-> 0, err |-> NoErr]

Init ==
    /\ builders = <<>>
    /\ lookup = NoLookup
    /\ pc = "idle"
    /\ ctxErr = NoErr
    /\ stopOnFailure = FALSE
    /\ literal = ZeroConfig
    /\ extensions = <<>>
    /\ i = 1
    /\ results = <<>>
    /\ firstError = NoErr
    /\ builder = 0
    /\ result = NilResult
    /\ buildRet = NoRet
    /\ phases = <<>>
    /\ invoked = <<>>
    /\ canBuildCalls = 0
    /\ adapterRun = NoAdapterRun
    /\ install = NoInstall
    /\ toolCheck = NoToolCheck

\* A behaviour holds one BuildAllExtensions call: a call starts from fresh
\* locals, so a second call on the same registry would replay the first.
Quiet == pc = "idle"

\* ---------------------------------------------------------------- registry
RegisterInFront(b) ==
    /\ Quiet
    /\ Len(builders) < MaxBuilders
    /\ builders' = <<b>> \o builders
    /\ lookup' = NoLookup
    /\ UNCHANGED <<batchVars, sideVars>>

Register(b) ==
    /\ Quiet
    /\ Len(builders) < MaxBuilders
    /\ builders' = Append(builders, b)
    /\ lookup' = NoLookup
    /\ UNCHANGED <<batchVars, sideVars>>

LastMatch(bs, filename, k) ==
    LET M == {j \in k..Len(bs) : CanBuild(bs[j], filename)}
    IN IF M = {} THEN 0 ELSE CHOOSE j \in M : \A m \in M : m <= j

RECURSIVE FirstMatch(_, _, _)
FirstMatch(bs, filename, k) ==
    IF k > Len(bs) THEN 0
    ELSE IF CanBuild(bs[k], filename) THEN k
    ELSE FirstMatch(bs, filename, k + 1)

BuilderFor(bs, extensionFile) ==
    LET filename == Base(extensionFile)
        k == FirstMatch(bs, filename, 1)
    IN IF k # 0
       THEN [found |-> TRUE, index |-> k, err |-> NoErr, evals |-> k]
       ELSE [found |-> FALSE, index |-> 0, err |-> NoBuilderErr(filename), evals |-> Len(bs)]

Resolve(path) ==
    /\ Quiet
    /\ LET r == BuilderFor(builders, path)
       IN lookup' = [done |-> TRUE, path |-> path, found |-> r.found,
                     index |-> r.index, err |-> r.err]
    /\ UNCHANGED <<builders, batchVars, sideVars>>

\* ---------------------------------------------------------------- batch runner
SetLastError(fe, err) == err

SetFirstError(fe, err) == IF fe = NoErr THEN err ELSE fe

EmptyReturnErrSet == PhaseErr("no extensions")

EmptyReturnErr == NoErr

StopAfterNoBuilderNever(stop) == FALSE

StopAfterNoBuilder(stop) == stop

StopAfterBuildAlways(res, stop) == ~res.Success

StopAfterBuild(res, stop) == ~res.Success /\ stop

AppendFailuresOnly(rs, res) == IF res.Success THEN rs ELSE Append(rs, res)

AppendResult(rs, res) == Append(rs, res)

ConfigLiterals ==
    { ZeroConfig, [StopOnFailure |-> TRUE], [StopOnFailure |-> FALSE] }

\* a field the literal leaves out has Go's zero value
StopOnFailure(config) ==
    IF "StopOnFailure" \in DOMAIN config THEN config.StopOnFailure ELSE FALSE

BuildAllExtensions(ctx0, config, exts) ==
    /\ Quiet
    /\ ctxErr' = ctx0
    /\ literal' = config
    /\ stopOnFailure' = StopOnFailure(config)
    /\ extensions' = exts
    /\ results' = <<>>
    /\ i' = 1
    /\ builder' = 0
    /\ result' = NilResult
    /\ buildRet' = NoRet
    /\ phases' = <<>>
    /\ invoked' = <<>>
    /\ canBuildCalls' = 0
    /\ IF Len(exts) = 0
       THEN pc' = "returned" /\ firstError' = EmptyReturnErr
       ELSE pc' = "loop" /\ firstError' = NoErr
    /\ lookup' = NoLookup
    /\ UNCHANGED <<builders, sideVars>>

CancelAbortsBuild(e) ==
    /\ pc \notin {"idle", "returned"}
    /\ ctxErr = NoErr
    /\ ctxErr' = e
    /\ IF pc = "loop"
       THEN UNCHANGED <<pc, results>>
       ELSE pc' = "returned" /\ results' = Append(results, FailedResult(e))
    /\ UNCHANGED <<sideVars, builders, lookup, stopOnFailure, literal, extensions, i,
                   firstError, builder, result, buildRet, phases, invoked,
                   canBuildCalls>>

Cancel(e) ==
    /\ pc \notin {"idle", "returned"}
    /\ ctxErr = NoErr
    /\ ctxErr' = e
    /\ UNCHANGED <<sideVars, builders, lookup, pc, stopOnFailure, literal, extensions, i, results,
                   firstError, builder, result, buildRet, phases, invoked,
                   canBuildCalls>>

IterCancelledContinue ==
    /\ pc = "loop"
    /\ i <= Len(extensions)
    /\ ctxErr # NoErr
    /\ firstError' = SetFirstError(firstError, ctxErr)
    /\ results' = Append(results, FailedResult(ctxErr))
    /\ pc' = "loop"
    /\ i' = i + 1
    /\ UNCHANGED <<sideVars, builders, lookup, ctxErr, stopOnFailure, literal, extensions,
                   builder, result, buildRet, phases, invoked, canBuildCalls>>

IterCancelled ==
    /\ pc = "loop"
    /\ i <= Len(extensions)
    /\ ctxErr # NoErr
    /\ firstError' = SetFirstError(firstError, ctxErr)
    /\ results' = Append(results, FailedResult(ctxErr))
    /\ pc' = "returned"
    /\ UNCHANGED <<sideVars, builders, lookup, ctxErr, stopOnFailure, literal, extensions, i,
                   builder, result, buildRet, phases, invoked, canBuildCalls>>

IterNoBuilder ==
    /\ pc = "loop"
    /\ i <= Len(extensions)
    /\ ctxErr = NoErr
    /\ LET r == BuilderFor(builders, extensions[i])
       IN /\ ~r.found
          /\ canBuildCalls' = canBuildCalls + r.evals
          /\ firstError' = SetFirstError(firstError, r.err)
          /\ results' = Append(results, FailedResult(r.err))
    /\ IF StopAfterNoBuilder(stopOnFailure)
       THEN pc' = "returned" /\ i' = i
       ELSE pc' = "loop" /\ i' = i + 1
    /\ UNCHANGED <<sideVars, builders, lookup, ctxErr, stopOnFailure, literal, extensions,
                   builder, result, buildRet, phases, invoked>>

BuildEntry(kind) ==
    CASE kind = "common" -> "configure"
      [] kind = "cargo" -> "cargo_run"
      [] OTHER -> "custom"

IterBuild ==
    /\ pc = "loop"
    /\ i <= Len(extensions)
    /\ ctxErr = NoErr
    /\ LET r == BuilderFor(builders, extensions[i])
       IN /\ r.found
          /\ canBuildCalls' = canBuildCalls + r.evals
          /\ builder' = r.index
          /\ invoked' = Append(invoked, [target |-> i, builder |-> r.index])
          /\ pc' = BuildEntry(builders[r.index].kind)
    /\ result' = IF builders[builder'].kind = "custom" THEN NilResult ELSE NewResult
    /\ phases' = <<>>
    /\ buildRet' = NoRet
    /\ UNCHANGED <<sideVars, builders, lookup, ctxErr, stopOnFailure, literal, extensions, i,
                   results, firstError>>

CollectResult ==
    /\ pc = "built"
    /\ LET err == buildRet.err
           res == IF err # NoErr /\ buildRet.result.isNil
                  THEN FailedResult(err)
                  ELSE buildRet.result
       IN /\ firstError' = IF err # NoErr THEN SetFirstError(firstError, err) ELSE firstError
          /\ results' = AppendResult(results, res)
          /\ IF StopAfterBuild(res, stopOnFailure)
             THEN pc' = "returned" /\ i' = i
             ELSE pc' = "loop" /\ i' = i + 1
    /\ UNCHANGED <<sideVars, builders, lookup, ctxErr, stopOnFailure, literal, extensions,
                   builder, result, buildRet, phases, invoked, canBuildCalls>>

LoopExit ==
    /\ pc = "loop"
    /\ i > Len(extensions)
    /\ pc' = "returned"
    /\ UNCHANGED <<sideVars, builders, lookup, ctxErr, stopOnFailure, literal, extensions, i,
                   results, firstError, builder, result, buildRet, phases,
                   invoked, canBuildCalls>>

\* ---------------------------------------------------------------- lifecycle driver
buildFrame == <<sideVars, builders, lookup, ctxErr, stopOnFailure, literal, extensions, i, results,
                firstError, builder, invoked, canBuildCalls>>

PhaseFailureNoError(res, err) == [result |-> res, err |-> err]

PhaseFailure(res, err) == [result |-> [res EXCEPT !.Error = err], err |-> err]

BuildSuccess(res, exts) ==
    [result |-> [res EXCEPT !.Extensions = exts, !.Success = TRUE], err |-> NoErr]

Artifact(n) == [stem |-> n, ext |-> ".so"]

LocateOutputs == { <<>>, <<Artifact(0)>> }

Fail(phase, err) ==
    /\ phases' = Append(phases, [name |-> phase, err |-> err])
    /\ buildRet' = PhaseFailure(result, err)
    /\ result' = buildRet'.result
    /\ pc' = "built"
    /\ UNCHANGED buildFrame

Pass(phase, nextPc) ==
    /\ phases' = Append(phases, [name |-> phase, err |-> NoErr])
    /\ pc' = nextPc
    /\ UNCHANGED <<result, buildRet>>
    /\ UNCHANGED buildFrame

ConfigureFunc(ok) ==
    /\ pc = "configure"
    /\ IF ok THEN Pass("Configure", "compile")
             ELSE Fail("Configure", PhaseErr("configure failed"))

BuildFunc(ok) ==
    /\ pc = "compile"
    /\ IF ok THEN Pass("Compile", "locate")
             ELSE Fail("Compile", PhaseErr("compile failed"))

FindFunc(found, ok) ==
    /\ pc = "locate"
    /\ IF ok
       THEN /\ phases' = Append(phases, [name |-> "Locate", err |-> NoErr])
            /\ buildRet' = BuildSuccess(result, found)
            /\ result' = buildRet'.result
            /\ pc' = "built"
            /\ UNCHANGED buildFrame
       ELSE Fail("Locate", PhaseErr("locate failed"))

\* ---------------------------------------------------------------- Cargo adapter
CargoLib(n) == [prefixed |-> (n % 2 = 1), stem |-> n, ext |-> ".so"]

CargoOutputs(n) == [j \in 1..n |-> CargoLib(j)]

getRubyExtensionName(lib) == [stem |-> lib.stem, ext |-> ".so"]

RECURSIVE CopyLibs(_, _, _, _)
CopyLibs(res, libs, j, failAt) ==
    IF j > Len(libs) THEN [result |-> res, err |-> NoErr]
    ELSE IF j = failAt THEN [result |-> res, err |-> PhaseErr("Cargo build failed: failed to copy")]
    ELSE CopyLibs([res EXCEPT !.Extensions = Append(@, getRubyExtensionName(libs[j]))],
                  libs, j + 1, failAt)

processBuiltExtensions(res, globOK, libs, failAt) ==
    IF ~globOK
    THEN [result |-> res, err |-> PhaseErr("Cargo build failed: failed to find cargo outputs")]
    ELSE IF Len(libs) = 0
    THEN [result |-> res, err |-> PhaseErr("Cargo build failed: no dynamic libraries found")]
    ELSE CopyLibs(res, libs, 1, failAt)

runCargo(ok) ==
    /\ pc = "cargo_run"
    /\ IF ok THEN Pass("runCargo", "cargo_process")
             ELSE Fail("runCargo", PhaseErr("Cargo build failed"))

CargoProcess(globOK, n, failAt) ==
    /\ pc = "cargo_process"
    /\ LET r == processBuiltExtensions(result, globOK, CargoOutputs(n), failAt)
       IN /\ phases' = Append(phases, [name |-> "processBuiltExtensions", err |-> r.err])
          /\ buildRet' = IF r.err # NoErr
                         THEN PhaseFailure(r.result, r.err)
                         ELSE [result |-> [r.result EXCEPT !.Success = TRUE], err |-> NoErr]
          /\ result' = buildRet'.result
          /\ pc' = "built"
    /\ UNCHANGED buildFrame

\* ---------------------------------------------------------------- custom adapter
\* An adapter registered by a caller.  It keeps the documented Build contract
\* (a successful result and no error, or an error with a failed result); it
\* may return no result at all with its error, which the batch runner replaces
\* by a failed result.
CustomOutcomes ==
    { [result |-> [NewResult EXCEPT !.Success = TRUE], err |-> NoErr],
      [result |-> FailedResult(PhaseErr("build failed")), err |-> PhaseErr("build failed")],
      [result |-> NilResult, err |-> PhaseErr("build failed")] }

CustomBuild(out) ==
    /\ pc = "custom"
    /\ phases' = Append(phases, [name |-> "buildFn", err |-> out.err])
    /\ buildRet' = out
    /\ result' = out.result
    /\ pc' = "built"
    /\ UNCHANGED buildFrame

\* ---------------------------------------------------------------- specification
\* ---------------------------------------------------------------- failure wrapping
\* Texts are sequences of pieces; the text is their concatenation.
IsEmptyText(t) == \A k \in 1..Len(t) : t[k] = ""

RECURSIVE JoinLines(_)
JoinLines(lines) ==
    IF Len(lines) = 0 THEN <<>>
    ELSE IF Len(lines) = 1 THEN <<lines[1]>>
    ELSE <<lines[1], "\n">> \o JoinLines(Tail(lines))

BuildError(builderName, output, cause) ==
    LET outputStr == JoinLines(output)
        prefix == IF cause # "" THEN <<builderName, " build failed: ", cause>>
                                ELSE <<builderName, " build failed">>
    IN IF ~IsEmptyText(outputStr)
       THEN prefix \o <<"\n\nBuild output:\n">> \o outputStr
       ELSE prefix

\* One sub-step of an adapter's Configure or Compile function: the label it
\* passes to BuildError, when its command runs, whether CleanFirst runs a clean
\* before it, whether Verbose appends two lines after it, and the check the
\* function makes around the command.
Command(phase, label, run, clean, verbose, check) ==
    [phase |-> phase, label |-> label, run |-> run, clean |-> clean,
     verbose |-> verbose, check |-> check]

noConfigure == Command("Configure", "", "never", FALSE, TRUE, "none")

ExtConfBuilder ==
    [name |-> "ExtConf",
     steps |-> << Command("Configure", "ExtConf", "always", FALSE, TRUE, "makefile"),
                  Command("Compile", "Make", "always", TRUE, TRUE, "none"),
                  Command("Compile", "Make Install", "withDest", FALSE, FALSE, "none") >>]

CmakeBuilder ==
    [name |-> "CMake",
     steps |-> << Command("Configure", "CMake", "always", FALSE, TRUE, "none"),
                  Command("Compile", "CMake Build", "always", TRUE, TRUE, "none"),
                  Command("Compile", "CMake Install", "withDest", FALSE, FALSE, "none") >>]

MakefileBuilder ==
    [name |-> "Makefile",
     steps |-> << noConfigure,
                  Command("Compile", "Make", "always", TRUE, TRUE, "none"),
                  Command("Compile", "Make Install", "withDest", FALSE, FALSE, "none") >>]

JavaBuilderMaven ==
    [name |-> "Java",
     steps |-> << noConfigure,
                  Command("Compile", "Maven", "always", FALSE, TRUE, "none") >>]

JavaBuilderJavac ==
    [name |-> "Java",
     steps |-> << noConfigure,
                  Command("Compile", "Javac", "always", FALSE, TRUE, "sources"),
                  Command("Compile", "Jar", "always", FALSE, FALSE, "none") >>]

GoBuilder ==
    [name |-> "Go",
     steps |-> << noConfigure,
                  Command("Compile", "Go", "always", FALSE, TRUE, "none") >>]

CargoBuilder ==
    [name |-> "Cargo",
     steps |-> << Command("Compile", "Cargo", "always", TRUE, TRUE, "none") >>]

NewGenericBuilder(name) ==
    [name |-> name,
     steps |-> << noConfigure,
                  Command("Compile", name, "always", FALSE, TRUE, "command") >>]

BuiltInAdapters ==
    { ExtConfBuilder, CmakeBuilder, MakefileBuilder, JavaBuilderMaven,
      JavaBuilderJavac, GoBuilder, CargoBuilder, NewGenericBuilder("Crystal") }

\* What a command writes: strings.Split of its combined output, never empty.
CommandOutputs == { <<"">>, <<"l">>, <<"l", "">> }

ProcessErrors == { "exit status 2", "signal: killed" }

AdapterRunning ==
    /\ adapterRun.step \in 1..Len(adapterRun.steps)
    /\ adapterRun.failure = ""

AdapterBuild(a, dest, cleanFirst, verbose) ==
    /\ ~AdapterRunning
    /\ adapterRun' = [NoAdapterRun EXCEPT !.name = a.name, !.steps = a.steps,
                                          !.step = 1, !.destPath = dest,
                                          !.cleanFirst = cleanFirst,
                                          !.verbose = verbose]
    /\ UNCHANGED <<builders, lookup, batchVars, install, toolCheck>>

\* One Configure or Compile sub-step; procErr is "" when the command exits 0.
AdapterStep(procErr, out, cleanOut, checkOK) ==
    /\ AdapterRunning
    /\ LET st == adapterRun.steps[adapterRun.step]
           runs == \/ st.run = "always"
                   \/ st.run = "withDest" /\ adapterRun.destPath
           before == IF st.clean /\ adapterRun.cleanFirst
                     THEN adapterRun.output \o cleanOut
                     ELSE adapterRun.output
           after == (IF runs THEN before \o out ELSE before)
                    \o (IF st.verbose /\ adapterRun.verbose
                        THEN IF runs THEN <<"Running: ", "Working directory: ">>
                                     ELSE <<"no configuration needed">>
                        ELSE <<>>)
           failed(kind, text, log) ==
               adapterRun' = [adapterRun EXCEPT !.output = log, !.phase = st.phase,
                                                !.err = text, !.failure = kind,
                                                !.cause = IF kind = "process"
                                                          THEN procErr ELSE ""]
       IN IF st.check \in {"sources", "command"} /\ ~checkOK
          THEN failed("check", <<"nothing to run for ", st.label>>, adapterRun.output)
          ELSE IF runs /\ procErr # ""
          THEN failed("process", BuildError(st.label, after, procErr), after)
          ELSE IF st.check = "makefile" /\ ~checkOK
          THEN failed("check", BuildError(st.label, after, "makefile not generated"), after)
          ELSE adapterRun' = [adapterRun EXCEPT !.output = after,
                                                !.step = adapterRun.step + 1]
    /\ UNCHANGED <<builders, lookup, batchVars, install, toolCheck>>

NextAdapters ==
    \/ \E a \in BuiltInAdapters, d \in BOOLEAN, c \in BOOLEAN, v \in BOOLEAN :
          AdapterBuild(a, d, c, v)
    \/ \E e \in ProcessErrors \cup {""}, out \in CommandOutputs,
          cl \in CommandOutputs, ok \in BOOLEAN : AdapterStep(e, out, cl, ok)

SpecAdapters == Init /\ [][NextAdapters]_vars

\* ---------------------------------------------------------------- strings and paths
\* Strings are sequences of characters, as for the registry's paths.
HasPrefix(s, prefix) ==
    Len(prefix) <= Len(s) /\ SubSeq(s, 1, Len(prefix)) = prefix

HasSuffix(s, suffix) ==
    Len(suffix) <= Len(s) /\ SubSeq(s, Len(s) - Len(suffix) + 1, Len(s)) = suffix

TrimPrefix(s, prefix) ==
    IF HasPrefix(s, prefix) THEN SubSeq(s, Len(prefix) + 1, Len(s)) ELSE s

TrimSuffix(s, suffix) ==
    IF HasSuffix(s, suffix) THEN SubSeq(s, 1, Len(s) - Len(suffix)) ELSE s

RECURSIVE TrimLeft(_, _)
TrimLeft(s, cutset) ==
    IF Len(s) > 0 /\ s[1] \in cutset THEN TrimLeft(Tail(s), cutset) ELSE s

RECURSIVE TrimRight(_, _)
TrimRight(s, cutset) ==
    IF Len(s) > 0 /\ s[Len(s)] \in cutset
    THEN TrimRight(SubSeq(s, 1, Len(s) - 1), cutset)
    ELSE s

Trim(s, cutset) == TrimRight(TrimLeft(s, cutset), cutset)

UpperCase == <<"A", "B", "C", "D", "E", "F", "G", "H", "I", "J", "K", "L", "M",
               "N", "O", "P", "Q", "R", "S", "T", "U", "V", "W", "X", "Y", "Z">>

LowerCase == <<"a", "b", "c", "d", "e", "f", "g", "h", "i", "j", "k", "l", "m",
               "n", "o", "p", "q", "r", "s", "t", "u", "v", "w", "x", "y", "z">>

ToLower(s) ==
    [k \in 1..Len(s) |->
        IF \E j \in 1..Len(UpperCase) : UpperCase[j] = s[k]
        THEN LowerCase[CHOOSE j \in 1..Len(UpperCase) : UpperCase[j] = s[k]]
        ELSE s[k]]

\* strings.Index for a one-character separator; 0 when absent
Index(s, c) ==
    IF \E k \in 1..Len(s) : s[k] = c
    THEN CHOOSE k \in 1..Len(s) : s[k] = c /\ \A j \in 1..(k - 1) : s[j] # c
    ELSE 0

RECURSIVE Split(_, _)
Split(s, c) ==
    LET k == Index(s, c)
    IN IF k = 0 THEN <<s>>
       ELSE <<SubSeq(s, 1, k - 1)>> \o Split(SubSeq(s, k + 1, Len(s)), c)

RECURSIVE JoinSegments(_)
JoinSegments(segs) ==
    IF Len(segs) = 0 THEN <<>>
    ELSE IF Len(segs) = 1 THEN segs[1]
    ELSE segs[1] \o <<Sep>> \o JoinSegments(Tail(segs))

DotDot == <<".", ".">>

RECURSIVE CleanSegments(_, _, _)
CleanSegments(segs, rooted, out) ==
    IF segs = <<>> THEN out
    ELSE LET h == Head(segs)
             t == Tail(segs)
         IN IF h = <<>> \/ h = <<".">> THEN CleanSegments(t, rooted, out)
            ELSE IF h = DotDot
            THEN IF Len(out) > 0 /\ out[Len(out)] # DotDot
                 THEN CleanSegments(t, rooted, SubSeq(out, 1, Len(out) - 1))
                 ELSE IF rooted THEN CleanSegments(t, rooted, out)
                 ELSE CleanSegments(t, rooted, Append(out, h))
            ELSE CleanSegments(t, rooted, Append(out, h))

Clean(path) ==
    IF path = <<>> THEN <<".">>
    ELSE LET rooted == path[1] = Sep
             body == JoinSegments(CleanSegments(Split(path, Sep), rooted, <<>>))
         IN IF rooted THEN <<Sep>> \o body
            ELSE IF body = <<>> THEN <<".">> ELSE body

Join(a, b) ==
    IF a = <<>> /\ b = <<>> THEN <<>>
    ELSE IF a = <<>> THEN Clean(b)
    ELSE Clean(a \o <<Sep>> \o b)

Dir(path) == Clean(SubSeq(path, 1, LastSep(path, Len(path))))

Ext(path) ==
    LET from == LastSep(path, Len(path)) + 1
        dots == { k \in from..Len(path) : path[k] = "." }
    IN IF dots = {} THEN <<>>
       ELSE SubSeq(path, CHOOSE k \in dots : \A j \in dots : j <= k, Len(path))

RECURSIVE CommonSegments(_, _)
CommonSegments(a, b) ==
    IF a # <<>> /\ b # <<>> /\ Head(a) = Head(b)
    THEN 1 + CommonSegments(Tail(a), Tail(b))
    ELSE 0

\* filepath.Rel: [ok, path]; ok is FALSE where Rel returns an error
Rel(basepath, targpath) ==
    LET base0 == Clean(basepath)
        targ == Clean(targpath)
        base == IF base0 = <<".">> THEN <<>> ELSE base0
        baseSlashed == Len(base) > 0 /\ base[1] = Sep
        targSlashed == Len(targ) > 0 /\ targ[1] = Sep
        segsOf(p) == SelectSeq(Split(p, Sep), LAMBDA x : x # <<>>)
        bs == segsOf(base)
        ts == segsOf(targ)
        n == CommonSegments(bs, ts)
        up == [k \in 1..(Len(bs) - n) |-> DotDot]
        down == SubSeq(ts, n + 1, Len(ts))
    IN IF targ = base0 THEN [ok |-> TRUE, path |-> <<".">>]
       ELSE IF baseSlashed # targSlashed THEN [ok |-> FALSE, path |-> <<>>]
       ELSE IF n < Len(bs) /\ bs[n + 1] = DotDot THEN [ok |-> FALSE, path |-> <<>>]
       ELSE [ok |-> TRUE, path |-> JoinSegments(up \o down)]

Digits == <<"0", "1", "2", "3", "4", "5", "6", "7", "8", "9">>

IsDigit(c) == \E d \in 1..Len(Digits) : Digits[d] = c

DigitValue(c) == (CHOOSE d \in 1..Len(Digits) : Digits[d] = c) - 1

RECURSIVE Decimal(_)
Decimal(ds) ==
    IF ds = <<>> THEN 0
    ELSE 10 * Decimal(SubSeq(ds, 1, Len(ds) - 1)) + DigitValue(ds[Len(ds)])

\* strconv.Atoi: [ok, n]
Atoi(s) ==
    LET signed == Len(s) > 0 /\ s[1] \in {"+", "-"}
        ds == IF signed THEN Tail(s) ELSE s
    IN IF ds = <<>> \/ \E k \in 1..Len(ds) : ~IsDigit(ds[k])
       THEN [ok |-> FALSE, n |-> 0]
       ELSE [ok |-> TRUE,
             n |-> IF signed /\ s[1] = "-" THEN 0 - Decimal(ds) ELSE Decimal(ds)]

RECURSIVE Itoa(_)
Itoa(n) ==
    IF n < 0 THEN <<"-">> \o Itoa(0 - n)
    ELSE IF n < 10 THEN <<Digits[n + 1]>>
    ELSE Itoa(n \div 10) \o <<Digits[(n % 10) + 1]>>

\* ---------------------------------------------------------------- install resolver
nativeLibraryExtensions ==
    { <<".", "s", "o">>, <<".", "b", "u", "n", "d", "l", "e">>,
      <<".", "d", "l", "l">>, <<".", "d", "y", "l", "i", "b">> }

isNativeLibraryByCase(path) == Ext(path) \in nativeLibraryExtensions

isNativeLibrary(path) == ToLower(Ext(path)) \in nativeLibraryExtensions

IsAbs(path) == Len(path) > 0 /\ path[1] = Sep

RECURSIVE uniqueStrings(_)
uniqueStrings(values) ==
    IF values = <<>> THEN <<>>
    ELSE LET front == uniqueStrings(SubSeq(values, 1, Len(values) - 1))
             last == values[Len(values)]
         IN IF last = <<>> \/ \E k \in 1..Len(front) : front[k] = last
            THEN front
            ELSE Append(front, last)

\* [ok, major, minor]
parseRubyVersion(version) ==
    LET parts == Split(version, ".")
        major == Atoi(parts[1])
        minor == Atoi(parts[2])
    IN IF Len(parts) < 2 THEN [ok |-> FALSE, major |-> 0, minor |-> 0]
       ELSE IF ~major.ok THEN [ok |-> FALSE, major |-> 0, minor |-> 0]
       ELSE IF ~minor.ok THEN [ok |-> FALSE, major |-> 0, minor |-> 0]
       ELSE [ok |-> TRUE, major |-> major.n, minor |-> minor.n]

\* The threshold compared on the text of the parts.
rubyVersionDirectoryByText(version) ==
    LET parts == Split(version, ".")
        v == parseRubyVersion(version)
    IN IF ~v.ok THEN [dir |-> <<>>, use |-> FALSE]
       ELSE IF v.major > 3 \/ (v.major = 3 /\ DigitValue(parts[2][1]) >= 4)
       THEN [dir |-> Itoa(v.major) \o <<".">> \o Itoa(v.minor), use |-> TRUE]
       ELSE [dir |-> <<>>, use |-> FALSE]

\* [dir, use]
rubyVersionDirectory(version) ==
    LET v == parseRubyVersion(version)
    IN IF ~v.ok THEN [dir |-> <<>>, use |-> FALSE]
       ELSE IF v.major > 3 \/ (v.major = 3 /\ v.minor >= 4)
       THEN [dir |-> Itoa(v.major) \o <<".">> \o Itoa(v.minor), use |-> TRUE]
       ELSE [dir |-> <<>>, use |-> FALSE]

LibName == <<"l", "i", "b">>

gatherBaseDirectories(config) ==
    LET add(dirs, dir) ==
            IF dir = <<>> THEN dirs
            ELSE IF ~IsAbs(dir) /\ config.GemDir # <<>>
            THEN Append(dirs, Clean(Join(config.GemDir, dir)))
            ELSE Append(dirs, Clean(dir))
        given == add(add(<<>>, config.DestPath), config.LibDir)
        dirs == IF Len(given) = 0 /\ config.GemDir # <<>>
                THEN add(given, Join(config.GemDir, LibName))
                ELSE given
    IN uniqueStrings(dirs)

RECURSIVE TargetsOf(_, _, _)
TargetsOf(baseDirs, version, k) ==
    IF k > Len(baseDirs) THEN <<>>
    ELSE LET base == baseDirs[k]
             target == IF version.use THEN Join(base, version.dir) ELSE base
         IN (IF k = 1 THEN <<>> ELSE <<target>>)
            \o (IF version.use THEN <<base>> ELSE <<>>)
            \o TargetsOf(baseDirs, version, k + 1)

\* [primary, additional]; primary is empty when there is no base directory
installTargets(config) ==
    LET baseDirs == gatherBaseDirectories(config)
        version == rubyVersionDirectory(config.RubyVersion)
    IN IF Len(baseDirs) = 0 THEN [primary |-> <<>>, additional |-> <<>>]
       ELSE [primary |-> IF version.use THEN Join(baseDirs[1], version.dir)
                                        ELSE baseDirs[1],
             additional |-> uniqueStrings(TargetsOf(baseDirs, version, 1))]

ExtPrefix == <<"e", "x", "t", "/">>

ExtconfRb == <<"e", "x", "t", "c", "o", "n", "f", ".", "r", "b">>

\* The descriptor file as moduleFromCreateMakefile reads it: whether it can be
\* read, and the create_makefile call it holds: "paren" for
\* create_makefile('NAME'), "bare" for create_makefile 'NAME', "none".
Descriptor(readable, call, name) ==
    [readable |-> readable, call |-> call, name |-> name]

moduleFromCreateMakefile(extensionFile, descriptor) ==
    IF ~HasSuffix(extensionFile, ExtconfRb) THEN <<>>
    ELSE IF ~descriptor.readable THEN <<>>
    ELSE IF descriptor.call = "paren" /\ descriptor.name # <<>> THEN descriptor.name
    ELSE IF descriptor.call = "bare" /\ descriptor.name # <<>> THEN descriptor.name
    ELSE <<>>

safeRelativePathCleaned(path) == Clean(path)

safeRelativePath(path) ==
    LET clean == Clean(path)
    IN IF clean = <<".">> \/ HasPrefix(clean, DotDot \o <<Sep>>)
       THEN Base(path)
       ELSE clean

determineInstallRelativePath(extensionFile, descriptor, builtRel) ==
    LET suffix == Ext(builtRel)
        baseName == TrimSuffix(Base(builtRel), suffix)
        withSuffix(p) == IF suffix # <<>> /\ ~HasSuffix(p, suffix) THEN p \o suffix ELSE p
        module == moduleFromCreateMakefile(extensionFile, descriptor)
    IN IF module # <<>> THEN safeRelativePath(withSuffix(module))
       ELSE IF HasSuffix(extensionFile, ExtconfRb)
       THEN LET r1 == TrimPrefix(extensionFile, ExtPrefix)
                r2 == TrimSuffix(r1, <<Sep>> \o ExtconfRb)
                r3 == TrimSuffix(r2, Ext(r2))
                r4 == Trim(r3, {Sep, "\\"})
                r5 == IF r4 # <<>> /\ ~HasSuffix(r4, baseName)
                      THEN Join(r4, baseName) ELSE r4
                relPath == IF r5 = <<>> THEN baseName ELSE r5
            IN safeRelativePath(withSuffix(relPath))
       ELSE LET d == TrimPrefix(Dir(extensionFile), ExtPrefix)
                relDir == IF d = <<>> THEN baseName
                          ELSE IF ~HasSuffix(d, baseName) THEN Join(d, baseName)
                          ELSE d
            IN safeRelativePath(withSuffix(relDir))

RECURSIVE makeGemRelativeToDir(_, _, _)
makeGemRelativeToDir(gemDir, extensionFile, built) ==
    IF built = <<>> THEN <<>>
    ELSE <<Head(built)>> \o makeGemRelativeToDir(gemDir, extensionFile, Tail(built))

RECURSIVE makeGemRelative(_, _, _)
makeGemRelative(gemDir, extensionFile, built) ==
    IF built = <<>> THEN <<>>
    ELSE LET baseDir == Dir(extensionFile)
             full == Join(baseDir, Head(built))
             cleaned == Rel(gemDir, Join(gemDir, full))
         IN <<IF gemDir # <<>> /\ cleaned.ok THEN cleaned.path ELSE full>>
            \o makeGemRelative(gemDir, extensionFile, Tail(built))

\* The file system is a function from the paths of regular files to their
\* contents; dirs are the directories MkdirAll was asked for.
WriteFile(files, path, content) ==
    [p \in (DOMAIN files) \cup {path} |-> IF p = path THEN content ELSE files[p]]

Truncated == <<>>

Partial == <<"~">>

\* One copyFile call on the install state; fail names the step of it that
\* fails, "" for none.  Opening the destination truncates it, also when it is
\* the source itself.
copyFile(fs, srcPath, destPath, fail) ==
    LET dir == Dir(destPath)
        made == [fs EXCEPT !.dirs = fs.dirs \cup {dir}]
        content == IF destPath = srcPath THEN Truncated ELSE fs.files[srcPath]
    IN IF srcPath \notin DOMAIN fs.files THEN [fs EXCEPT !.err = "stat"]
       ELSE IF fail = "mkdir" THEN [fs EXCEPT !.err = "mkdir"]
       ELSE IF fail = "open" THEN [made EXCEPT !.err = "open"]
       ELSE IF fail = "copy"
       THEN [made EXCEPT !.files = WriteFile(fs.files, destPath,
                                             IF destPath = srcPath THEN Truncated
                                                                   ELSE Partial),
                         !.err = "copy"]
       ELSE [made EXCEPT !.files = WriteFile(fs.files, destPath, content)]

InstallFrame == <<builders, lookup, batchVars, adapterRun, toolCheck>>

\* The call and its early returns. regular is the set of positions of built
\* whose file exists as a regular file in the descriptor's directory.
finalizeNativeExtensions(extensionFile, descriptor, built, regular) ==
    /\ install.pc = "configured"
    /\ LET config == install.config
           extensionDir == Dir(Join(config.GemDir, extensionFile))
           sources == { Join(extensionDir, built[k]) : k \in regular }
           before == [p \in sources |->
                         built[CHOOSE k \in regular : Join(extensionDir, built[k]) = p]]
           start == [install EXCEPT !.extensionFile = extensionFile,
                                    !.extensionDir = extensionDir,
                                    !.descriptor = descriptor, !.built = built,
                                    !.before = before, !.files = before]
           hasNative == \E k \in 1..Len(built) : isNativeLibrary(built[k])
           passThrough == [start EXCEPT !.pc = "returned", !.paths =
                              makeGemRelative(config.GemDir, extensionFile, built)]
       IN install' =
            IF Len(built) = 0 THEN [start EXCEPT !.pc = "returned"]
            ELSE IF ~hasNative THEN passThrough
            ELSE IF installTargets(config).primary = <<>> THEN passThrough
            ELSE [start EXCEPT !.pc = "loop"]
    /\ UNCHANGED InstallFrame

CopyDestinationsExtrasFirst(targets) == targets.additional \o <<targets.primary>>

\* The destinations of one artifact, in the order they are copied to.
CopyDestinations(targets) == <<targets.primary>> \o targets.additional

skippedByName(files, rel, srcPath) == ~isNativeLibrary(rel)

\* an artifact the loop passes over: not a native library, or os.Stat finds no
\* regular file at its place
skipped(files, rel, srcPath) ==
    ~isNativeLibrary(rel) \/ srcPath \notin DOMAIN files

\* The head of one loop iteration: skip the artifact, or resolve where it goes.
InstallArtifact ==
    /\ install.pc = "loop"
    /\ install.k <= Len(install.built)
    /\ LET rel == install.built[install.k]
           srcPath == Join(install.extensionDir, rel)
           derived == determineInstallRelativePath(install.extensionFile,
                                                   install.descriptor, rel)
           targets == installTargets(install.config)
       IN install' =
            IF skipped(install.files, rel, srcPath)
            THEN [install EXCEPT !.k = install.k + 1]
            ELSE [install EXCEPT !.pc = "copy",
                                 !.relDest = IF derived = <<>> THEN Base(rel)
                                                               ELSE derived,
                                 !.pending = CopyDestinations(targets)]
    /\ UNCHANGED InstallFrame

InstalledPath(config, primaryDest, relDest) ==
    LET target == Join(primaryDest, relDest)
        relPath == Rel(config.GemDir, target)
    IN IF relPath.ok THEN relPath.path ELSE target

\* One copyFile call of the current artifact; after its last one the artifact
\* is listed and the loop moves on.
InstallCopy(fail) ==
    /\ install.pc = "copy"
    /\ LET srcPath == Join(install.extensionDir, install.built[install.k])
           destPath == Join(Head(install.pending), install.relDest)
           copied == copyFile(install, srcPath, destPath, fail)
           logged == [copied EXCEPT !.copies =
                         Append(install.copies,
                                [src |-> srcPath, dst |-> destPath, ok |-> copied.err = ""])]
           primaryDest == installTargets(install.config).primary
       IN install' =
            IF copied.err # ""
            THEN [logged EXCEPT !.pc = "returned", !.paths = <<>>]
            ELSE IF Len(install.pending) > 1
            THEN [logged EXCEPT !.pending = Tail(install.pending)]
            ELSE [logged EXCEPT !.pending = <<>>, !.pc = "loop",
                                !.k = install.k + 1,
                                !.paths = Append(install.paths,
                                    InstalledPath(install.config, primaryDest,
                                                  install.relDest))]
    /\ UNCHANGED InstallFrame

InstallReturn ==
    /\ install.pc = "loop"
    /\ install.k > Len(install.built)
    /\ install' = [install EXCEPT !.pc = "returned"]
    /\ UNCHANGED InstallFrame

\* Install calls: configurations, descriptors with what they declare, and
\* build outputs.
Config(gemDir, destPath, libDir, rubyVersion) ==
    [GemDir |-> gemDir, DestPath |-> destPath, LibDir |-> libDir,
     RubyVersion |-> rubyVersion]

GemRoot == <<"/", "g">>

\* (GemDir, DestPath, LibDir)
Layouts ==
    { <<GemRoot, <<>>, <<>>>>, <<GemRoot, <<"/", "d">>, <<>>>>,
      <<GemRoot, <<>>, <<"l">>>>, <<GemRoot, <<"o">>, <<"l">>>>,
      <<<<>>, <<>>, <<>>>>, <<<<>>, <<"/", "d">>, <<>>>>, <<<<>>, <<"o">>, <<>>>> }

RubyVersions ==
    { <<"3", ".", "3", ".", "0">>, <<"3", ".", "4", ".", "2">>,
      <<"3", ".", "1", "0">>, <<"4", ".", "0">>, <<"3", ".", "x">> }

\* DestPath naming the extensions root, LibDir naming the version directory
\* of DestPath, and a package root given relative to the working directory.
OtherConfigs ==
    { Config(<<"r">>, <<>>, <<>>, <<"3", ".", "3", ".", "0">>),
      Config(GemRoot, <<"e", "x", "t">>, <<>>, <<"3", ".", "3", ".", "0">>),
      Config(GemRoot, <<"/", "d">>, <<"/", "d", "/", "3", ".", "4">>,
             <<"3", ".", "4", ".", "2">>) }

Configs ==
    { Config(l[1], l[2], l[3], v) : l \in Layouts, v \in RubyVersions }
    \cup OtherConfigs

NewBuildConfig(config) ==
    /\ install.pc = "new"
    /\ install' = [install EXCEPT !.pc = "configured", !.config = config]
    /\ UNCHANGED <<builders, lookup, batchVars, adapterRun, toolCheck>>

ExtJExtconf == ExtPrefix \o <<"j", "/">> \o ExtconfRb

ExtExtconf == ExtPrefix \o ExtconfRb

ExtPExtconf == ExtPrefix \o <<"p", "/">> \o ExtconfRb

ExtKMakefile == ExtPrefix \o <<"k", "/", "M", "a", "k", "e", "f", "i", "l", "e">>

OutsideExtconf == <<".", ".", "/", "x", "/">> \o ExtconfRb

ExtMakefile == ExtPrefix \o <<"M", "a", "k", "e", "f", "i", "l", "e">>

Undeclared == Descriptor(TRUE, "none", <<>>)

Unreadable == Descriptor(FALSE, "bare", <<"j", "/", "e", "/", "p">>)

ExtconfDescriptors ==
    { Undeclared, Unreadable,
      Descriptor(TRUE, "bare", <<"j", "/", "e", "/", "p">>),
      Descriptor(TRUE, "paren", <<"p", ".", "s", "o">>),
      Descriptor(TRUE, "paren", <<".", ".", "/", "x">>) }

\* (descriptor path, descriptor file): a Makefile holds no create_makefile call
DescriptorFiles ==
    ({ExtJExtconf} \X ExtconfDescriptors)
    \cup ({ExtExtconf} \X {Undeclared, Unreadable})
    \cup ({ExtPExtconf, OutsideExtconf, ExtKMakefile, ExtMakefile} \X {Undeclared})

Artifacts ==
    { <<"p", ".", "s", "o">>, <<"s", "/", "q", ".", "S", "O">>,
      <<"a", ".", "t", "x", "t">>, <<"h", "/", "b", ".", "h">>,
      <<"q", ".", "s", "o">> }

\* What a Locate phase returns: the files a glob matched, none of them twice.
BuiltLists ==
    { b \in UNION { [1..n -> Artifacts] : n \in 0..MaxBuilt } :
        \A x \in 1..Len(b), y \in 1..Len(b) : x # y => b[x] # b[y] }

CopyFailures == {"mkdir", "open", "copy"}

\* A behaviour holds one Install call, each copyFile call a step of it.
NextInstall ==
    \/ \E config \in Configs : NewBuildConfig(config)
    \/ \E d \in DescriptorFiles, built \in BuiltLists :
         \E regular \in SUBSET (1..Len(built)) :
            finalizeNativeExtensions(d[1], d[2], built, regular)
    \/ InstallArtifact
    \/ \E fail \in CopyFailures \cup {""} : InstallCopy(fail)
    \/ InstallReturn

SpecInstall == Init /\ [][NextInstall]_vars

\* ---------------------------------------------------------------- tool checker
\* path is the set of tools exec.LookPath finds.
CheckToolAvailable(path, tool) == tool \in path

ToolRequirement(name, purpose, alternatives, optional) ==
    [Name |-> name, Purpose |-> purpose, Alternatives |-> alternatives,
     Optional |-> optional]

RECURSIVE FirstAvailable(_, _, _)
FirstAvailable(path, alternatives, k) ==
    IF k > Len(alternatives) THEN 0
    ELSE IF CheckToolAvailable(path, alternatives[k]) THEN k
    ELSE FirstAvailable(path, alternatives, k + 1)

ToolFoundPrimaryOnly(path, req) == CheckToolAvailable(path, req.Name)

ToolFound(path, req) ==
    \/ CheckToolAvailable(path, req.Name)
    \/ FirstAvailable(path, req.Alternatives, 1) # 0

MissingEntryNameOnly(req) == <<req.Name>>

\* "Name (Purpose)", or the name alone
MissingEntry(req) ==
    IF req.Purpose # "" THEN <<req.Name, " (", req.Purpose, ")">>
                        ELSE <<req.Name>>

RECURSIVE missingTools(_, _)
missingTools(path, requirements) ==
    IF requirements = <<>> THEN <<>>
    ELSE LET req == Head(requirements)
         IN (IF ~ToolFound(path, req) /\ ~req.Optional THEN <<MissingEntry(req)>>
                                                      ELSE <<>>)
            \o missingTools(path, Tail(requirements))

RECURSIVE JoinEntries(_)
JoinEntries(entries) ==
    IF Len(entries) = 0 THEN <<>>
    ELSE IF Len(entries) = 1 THEN entries[1]
    ELSE entries[1] \o <<", ">> \o JoinEntries(Tail(entries))

CheckRequiredTools(path, requirements) ==
    /\ ~toolCheck.called
    /\ LET missing == missingTools(path, requirements)
       IN toolCheck' =
            [called |-> TRUE, path |-> path, requirements |-> requirements,
             err |-> IF Len(missing) = 0 THEN <<>>
                     ELSE IF Len(missing) = 1
                     THEN missing[1] \o <<" not found in PATH">>
                     ELSE <<"missing required tools: ">> \o JoinEntries(missing)]
    /\ UNCHANGED <<builders, lookup, batchVars, adapterRun, install>>

ToolNames == {"make", "gmake", "cc", "ninja", "cmake"}

Requirements ==
    { ToolRequirement("make", "build automation", <<"gmake">>, FALSE),
      ToolRequirement("cc", "", <<>>, FALSE),
      ToolRequirement("ninja", "fast builds", <<>>, TRUE),
      ToolRequirement("cmake", "CMake build system", <<"ninja", "gmake">>, FALSE) }

RequirementLists == UNION { [1..n -> Requirements] : n \in 0..MaxRequirements }

NextTools ==
    /\ ~toolCheck.called
    /\ \E path \in SUBSET ToolNames, requirements \in RequirementLists :
          CheckRequiredTools(path, requirements)

SpecTools == Init /\ [][NextTools]_vars

\* ---------------------------------------------------------------- default registry
\* The file names the default registry is asked about.
DescriptorNames ==
    { <<"e", "x", "t", "c", "o", "n", "f", ".", "r", "b">>,
      <<"c", "o", "n", "f", "i", "g", "u", "r", "e">>,
      <<"R", "a", "k", "e", "f", "i", "l", "e">>,
      <<"C", "M", "a", "k", "e", "L", "i", "s", "t", "s", ".", "t", "x", "t">>,
      <<"C", "a", "r", "g", "o", ".", "t", "o", "m", "l">>,
      <<"M", "a", "k", "e", "f", "i", "l", "e">>,
      <<"G", "N", "U", "m", "a", "k", "e", "f", "i", "l", "e">>,
      <<"m", "a", "i", "n", ".", "g", "o">>,
      <<"u", "n", "k", "n", "o", "w", "n", ".", "f", "i", "l", "e">> }

DescriptorPaths == DescriptorNames \cup { ExtPrefix \o f : f \in DescriptorNames }

\* MatchesPattern with a pattern anchored at the end only
ExtConfCanBuild(f) == HasSuffix(f, ExtconfRb)

\* accepts "configure" and "configure.sh"
ConfigureCanBuild(f) ==
    f \in { <<"c", "o", "n", "f", "i", "g", "u", "r", "e">>, <<"c", "o", "n", "f", "i", "g", "u", "r", "e", ".", "s", "h">> }

\* accepts Rakefile, rakefile, Rakefile.rb, rakefile.rb, mkrf_conf, mkrf_conf.rb
RakeCanBuild(f) ==
    \/ TrimSuffix(ToLower(f), <<".", "r", "b">>) = <<"r", "a", "k", "e", "f", "i", "l", "e">>
    \/ TrimSuffix(f, <<".", "r", "b">>) = <<"m", "k", "r", "f", "_", "c", "o", "n", "f">>

CmakeCanBuild(f) == HasSuffix(f, <<"C", "M", "a", "k", "e", "L", "i", "s", "t", "s", ".", "t", "x", "t">>)

CargoCanBuild(f) == HasSuffix(f, <<"C", "a", "r", "g", "o", ".", "t", "o", "m", "l">>)

MakefileCanBuild(f) ==
    ToLower(Base(f)) \in { <<"m", "a", "k", "e", "f", "i", "l", "e">>, <<"g", "n", "u", "m", "a", "k", "e", "f", "i", "l", "e">> }

GoCanBuild(f) ==
    \/ ToLower(Ext(f)) = <<".", "g", "o">>
    \/ ToLower(Base(f)) = <<"g", "o", ".", "m", "o", "d">>

\* an adapter of the registry: its Name() and the file names its CanBuild accepts
Claiming(name, accepted) ==
    [name |-> name, kind |-> "common", claims |-> accepted]

StandardBuilders ==
    << Claiming("ExtConf", { f \in DescriptorNames : ExtConfCanBuild(f) }),
       Claiming("Configure", { f \in DescriptorNames : ConfigureCanBuild(f) }),
       Claiming("Rake", { f \in DescriptorNames : RakeCanBuild(f) }),
       Claiming("CMake", { f \in DescriptorNames : CmakeCanBuild(f) }),
       Claiming("Cargo", { f \in DescriptorNames : CargoCanBuild(f) }) >>

OtherBuilders ==
    { Claiming("Makefile", { f \in DescriptorNames : MakefileCanBuild(f) }),
      Claiming("Go", { f \in DescriptorNames : GoCanBuild(f) }) }

NewBuilderFactory ==
    /\ Quiet
    /\ builders = <<>>
    /\ ~lookup.done
    /\ builders' = StandardBuilders
    /\ lookup' = NoLookup
    /\ UNCHANGED <<batchVars, sideVars>>

\* Register on a registry made by NewBuilderFactory
RegisterBuiltIn(b) ==
    /\ Quiet
    /\ Len(builders) >= Len(StandardBuilders)
    /\ Len(builders) < Len(StandardBuilders) + MaxBuilders
    /\ builders' = Append(builders, b)
    /\ lookup' = NoLookup
    /\ UNCHANGED <<batchVars, sideVars>>

NextFactory ==
    \/ NewBuilderFactory
    \/ \E b \in OtherBuilders : RegisterBuiltIn(b)
    \/ /\ builders # <<>>
       /\ \E p \in DescriptorPaths : Resolve(p)

SpecFactory == Init /\ [][NextFactory]_vars

TargetLists == UNION { [1..n -> Targets] : n \in 0..MaxTargets }

Next ==
    \/ \E b \in Adapters : Register(b)
    \/ \E p \in LookupPaths : Resolve(p)
    \/ \E c \in {NoErr} \cup CtxErrs, config \in ConfigLiterals, exts \in TargetLists :
          BuildAllExtensions(c, config, exts)
    \/ \E e \in CtxErrs : Cancel(e)
    \/ IterCancelled
    \/ IterNoBuilder
    \/ IterBuild
    \/ CollectResult
    \/ LoopExit
    \/ \E ok \in BOOLEAN : ConfigureFunc(ok)
    \/ \E ok \in BOOLEAN : BuildFunc(ok)
    \/ \E found \in LocateOutputs, ok \in BOOLEAN : FindFunc(found, ok)
    \/ \E ok \in BOOLEAN : runCargo(ok)
    \/ \E g \in BOOLEAN, n \in 0..MaxLibs, f \in 0..MaxLibs : CargoProcess(g, n, f)
    \/ \E out \in CustomOutcomes : CustomBuild(out)

Spec == Init /\ [][Next]_vars

\* ---------------------------------------------------------------- properties
\* The final path segment, stated from the path alone.
IsFinalSegment(d, path) ==
    IF path = <<>> THEN d = <<".">>
    ELSE IF \A j \in 1..Len(path) : path[j] = Sep THEN d = <<Sep>>
    ELSE \E a \in 1..Len(path), b \in 1..Len(path) :
            /\ a <= b
            /\ d = SubSeq(path, a, b)
            /\ \A j \in a..b : path[j] # Sep
            /\ a = 1 \/ path[a - 1] = Sep
            /\ \A j \in (b + 1)..Len(path) : path[j] = Sep

FinalSegment(path) ==
    CHOOSE d \in {SubSeq(path, a, b) : a \in 1..Len(path), b \in 1..Len(path)}
                    \cup {<<".">>, <<Sep>>} : IsFinalSegment(d, path)

Claimants(path) == {k \in 1..Len(builders) : FinalSegment(path) \in builders[k].claims}

Unclaimed(k) == Claimants(extensions[k]) = {}

Failed == {k \in 1..Len(results) : ~results[k].Success}

FirstFailing ==
    {k \in 1..Len(extensions) : Unclaimed(k) \/ (k <= Len(results) /\ ~results[k].Success)}

Min(S) == CHOOSE x \in S : \A y \in S : x <= y

BuildsOf(k) == {j \in 1..Len(invoked) : invoked[j].target = k}

\* C1: when two or more registered adapters claim the final segment of the
\* path, BuilderFor returns the earliest registered of them.
C1_FirstRegisteredWins ==
    (lookup.done /\ Cardinality(Claimants(lookup.path)) >= 2) =>
        /\ lookup.found
        /\ lookup.index \in Claimants(lookup.path)
        /\ \A k \in Claimants(lookup.path) : lookup.index <= k

C1_Witness ==
    /\ lookup.done
    /\ Cardinality(Claimants(lookup.path)) >= 2
    /\ builders[1] # builders[2]
    /\ lookup.found
    /\ lookup.index = 1

\* C2: BuilderFor returns the one adapter that claims the final path segment,
\* with no error; when none claims it, it returns no adapter and a not-found
\* error naming that final segment.
C2_ResolveUniqueOrNotFound ==
    lookup.done =>
        /\ Cardinality(Claimants(lookup.path)) = 1 =>
              /\ lookup.found
              /\ lookup.index \in Claimants(lookup.path)
              /\ lookup.err = NoErr
        /\ Claimants(lookup.path) = {} =>
              /\ ~lookup.found
              /\ lookup.index = 0
              /\ lookup.err = NoBuilderErr(FinalSegment(lookup.path))

C2_Witness ==
    /\ lookup.done
    /\ lookup.path = <<"a", "/", "u">>
    /\ \E k \in 1..Len(builders) : <<"a">> \in builders[k].claims
    /\ ~lookup.found
    /\ lookup.err.detail = <<"u">>

\* C3: with StopOnFailure set and no cancellation, the batch stops at the
\* first failing target k (unresolved or failed build): the results have
\* exactly k entries (1-based), the last one failed, and no Build is invoked
\* for a later target.
C3_StopsAtFirstFailure ==
    (pc = "returned" /\ stopOnFailure /\ ctxErr = NoErr) =>
        IF FirstFailing = {}
        THEN Len(results) = Len(extensions)
        ELSE LET k == Min(FirstFailing)
             IN /\ Len(results) = k
                /\ ~results[k].Success
                /\ \A j \in 1..Len(invoked) :
                      /\ invoked[j].target <= k
                      /\ Unclaimed(k) => invoked[j].target < k

C3_Witness ==
    /\ pc = "returned"
    /\ stopOnFailure
    /\ ctxErr = NoErr
    /\ Len(extensions) = 2
    /\ ~Unclaimed(2)
    /\ Len(results) = 1
    /\ ~results[1].Success
    /\ Len(invoked) = 1

\* C4: with StopOnFailure unset and no cancellation, the batch processes every
\* target: one result per target, one Build per target that resolves, and the
\* returned error is the error of the first failing target.
C4_ContinuesPastFailures ==
    (pc = "returned" /\ ~stopOnFailure /\ ctxErr = NoErr) =>
        /\ Len(results) = Len(extensions)
        /\ \A k \in 1..Len(extensions) :
              Cardinality(BuildsOf(k)) = IF Unclaimed(k) THEN 0 ELSE 1
        /\ firstError = IF Failed = {} THEN NoErr ELSE results[Min(Failed)].Error

C4_Witness ==
    /\ pc = "returned"
    /\ ~stopOnFailure
    /\ ctxErr = NoErr
    /\ Len(results) = 2
    /\ ~results[1].Success
    /\ results[2].Success
    /\ Len(invoked) = 2
    /\ firstError = results[1].Error
    /\ firstError # NoErr

\* C5: when the context is already cancelled at the top of an iteration, the
\* batch appends exactly one failed result carrying the context error and
\* returns, without evaluating a predicate or invoking a Build, whatever
\* StopOnFailure is; a result carrying the context error is always the last.
C5_CancelledAtTop ==
    /\ [][(pc = "loop" /\ i <= Len(extensions) /\ ctxErr # NoErr) =>
            /\ results' = Append(results, FailedResult(ctxErr))
            /\ pc' = "returned"
            /\ invoked' = invoked
            /\ canBuildCalls' = canBuildCalls]_vars
    /\ [](\A k \in 1..Len(results) :
            results[k].Error \in CtxErrs => (k = Len(results) /\ pc = "returned"))

C5_Witness ==
    /\ pc = "returned"
    /\ ~stopOnFailure
    /\ Len(extensions) = 2
    /\ Len(results) = 1
    /\ results[1] = FailedResult(Canceled)
    /\ ~Unclaimed(1)
    /\ invoked = <<>>
    /\ canBuildCalls = 0

\* C6: a call with an empty target list returns no results and no error, and
\* evaluates no predicate and invokes no Build.
C6_EmptyBatch ==
    (pc = "returned" /\ extensions = <<>>) =>
        /\ results = <<>>
        /\ firstError = NoErr
        /\ canBuildCalls = 0
        /\ invoked = <<>>

C6_Witness ==
    /\ pc = "returned"
    /\ extensions = <<>>
    /\ Len(builders) > 0
    /\ ctxErr # NoErr
    /\ results = <<>>

\* C7: results are in input order, one per processed target: every change of
\* the results appends one entry at the index of the target being processed,
\* and that entry is the outcome of that target (successful builds included);
\* at return there are at most as many results as targets.
EntryOfCurrentTarget(entry) ==
    IF pc = "built"
    THEN /\ invoked # <<>>
         /\ invoked[Len(invoked)].target = i
         /\ invoked[Len(invoked)].builder \in Claimants(extensions[i])
         /\ entry = IF buildRet.result.isNil THEN FailedResult(buildRet.err)
                    ELSE buildRet.result
    ELSE IF ctxErr # NoErr
    THEN entry = FailedResult(ctxErr)
    ELSE Unclaimed(i) /\ entry = FailedResult(NoBuilderErr(FinalSegment(extensions[i])))

C7_ResultsInInputOrder ==
    /\ [][(pc \in {"loop", "built"} /\ i <= Len(extensions)) =>
            /\ Len(results) = i - 1
            /\ (pc' = "returned" \/ i' = i + 1) =>
                  /\ Len(results') = i
                  /\ SubSeq(results', 1, i - 1) = results
                  /\ EntryOfCurrentTarget(results'[i])]_vars
    /\ [](pc = "returned" => Len(results) <= Len(extensions))

C7_Witness ==
    /\ pc = "returned"
    /\ Len(results) = 2
    /\ results[1].Success
    /\ ~results[2].Success
    /\ results[2].Error = NoBuilderErr(<<"u">>)

\* C8: the returned error is the error of the first failure in input order;
\* once set it is never overwritten, and results already appended are never
\* removed or replaced.
C8_FirstErrorKept ==
    /\ [][pc # "idle" =>
            /\ firstError # NoErr => firstError' = firstError
            /\ Len(results') >= Len(results)
            /\ SubSeq(results', 1, Len(results)) = results]_vars
    /\ [](pc = "returned" =>
            firstError = IF Failed = {} THEN NoErr ELSE results[Min(Failed)].Error)

C8_Witness ==
    /\ pc = "returned"
    /\ Len(results) = 2
    /\ ~results[1].Success
    /\ ~results[2].Success
    /\ results[1].Error # results[2].Error
    /\ firstError = results[1].Error

\* C9: the lifecycle driver runs Configure, Compile, Locate in that order, each
\* at most once, a phase only after every earlier one succeeded; when a phase
\* fails it returns the result with Success false and Error equal to that
\* phase's error, which is also the returned error.
CommonBuildRunning ==
    /\ pc \in {"configure", "compile", "locate", "built"}
    /\ builders[builder].kind = "common"

PhaseOrder == <<"Configure", "Compile", "Locate">>

C9_PhasesInOrder ==
    CommonBuildRunning =>
        /\ Len(phases) <= 3
        /\ \A j \in 1..Len(phases) : phases[j].name = PhaseOrder[j]
        /\ \A j \in 1..(Len(phases) - 1) : phases[j].err = NoErr
        /\ pc = "configure" => phases = <<>>
        /\ pc = "compile" => (Len(phases) = 1 /\ phases[1].err = NoErr)
        /\ pc = "locate" => (Len(phases) = 2 /\ phases[2].err = NoErr)
        /\ pc = "built" =>
              /\ phases # <<>>
              /\ ~buildRet.result.isNil
              /\ buildRet.err = phases[Len(phases)].err
              /\ buildRet.result.Error = phases[Len(phases)].err
              /\ buildRet.result.Success <=> buildRet.err = NoErr
              /\ buildRet.err = NoErr => Len(phases) = 3

C9_Witness ==
    /\ CommonBuildRunning
    /\ pc = "built"
    /\ Len(phases) = 2
    /\ buildRet.err = PhaseErr("compile failed")
    /\ buildRet.result.Error = PhaseErr("compile failed")
    /\ ~buildRet.result.Success

\* C10: the result a built-in adapter's Build returns has artifacts only after
\* a successful run: a failed result has no artifacts, and a successful one
\* has no error.
C10_ArtifactsOnlyOnSuccess ==
    (pc = "built" /\ builders[builder].kind \in {"common", "cargo"}) =>
        /\ ~buildRet.result.Success => buildRet.result.Extensions = <<>>
        /\ buildRet.result.Success => buildRet.result.Error = NoErr

\* C11: a process failure in an adapter's Configure or Compile phase is
\* rendered as "<the adapter's display name> build failed: <underlying error>",
\* followed by the accumulated log when the log is not empty.
C11_FailureNamesAdapter ==
    adapterRun.failure = "process" =>
        LET head == <<adapterRun.name, " build failed: ", adapterRun.cause>>
            log == JoinLines(adapterRun.output)
        IN adapterRun.err = IF IsEmptyText(log) THEN head
                            ELSE head \o <<"\n\nBuild output:\n">> \o log

\* C12: when no artifact passed to Install has a native-library suffix, Install
\* returns, in input order and with no error, each artifact's path joined to
\* the descriptor's directory, and copies nothing: no file or directory is
\* created and the artifacts stay as they were.
InstallReturned == install.pc = "returned"

NoNativeArtifact ==
    \A k \in 1..Len(install.built) : ~isNativeLibrary(install.built[k])

C12_NonNativePassThrough ==
    (InstallReturned /\ NoNativeArtifact) =>
        /\ install.err = ""
        /\ Len(install.paths) = Len(install.built)
        /\ \A k \in 1..Len(install.built) :
              install.paths[k] =
                  Clean(Dir(install.extensionFile) \o <<Sep>> \o install.built[k])
        /\ install.copies = <<>>
        /\ install.dirs = {}
        /\ install.files = install.before

C12_Witness ==
    /\ InstallReturned
    /\ NoNativeArtifact
    /\ Len(install.built) = 2
    /\ install.paths[1] # install.paths[2]
    /\ DOMAIN install.before # {}

\* C13: when the runtime version reads as major.minor with major > 3, or
\* major = 3 and minor >= 4 as integers, every installed native artifact is
\* copied under <base>/<major>.<minor>/ and under <base>/ for each base
\* directory, and the returned list names the versioned copy under the first
\* base; otherwise every copy goes to <base>/ only and no directory is made
\* elsewhere.
VersionReadsAs(version, major, minor) ==
    LET parts == Split(version, ".")
    IN Len(parts) >= 2 /\ parts[1] = Itoa(major) /\ parts[2] = Itoa(minor)

VersionNumbers == 0..MaxVersionNumber

\* the version-qualified directory name the claim gives, empty for none
GatedDirectory(version) ==
    LET gated == { mm \in VersionNumbers \X VersionNumbers :
                      /\ VersionReadsAs(version, mm[1], mm[2])
                      /\ mm[1] > 3 \/ (mm[1] = 3 /\ mm[2] >= 4) }
    IN IF gated = {} THEN <<>>
       ELSE LET mm == CHOOSE x \in gated : TRUE
            IN Itoa(mm[1]) \o <<".">> \o Itoa(mm[2])

InstalledIndexes ==
    { k \in 1..Len(install.built) :
         /\ isNativeLibrary(install.built[k])
         /\ Join(install.extensionDir, install.built[k]) \in DOMAIN install.before }

InstallSucceeded ==
    /\ install.pc = "returned"
    /\ install.err = ""
    /\ install.copies # <<>>

RelDestOf(k) ==
    LET derived == determineInstallRelativePath(install.extensionFile,
                                                install.descriptor, install.built[k])
    IN IF derived = <<>> THEN Base(install.built[k]) ELSE derived

\* a returned path as a place in the file system
Resolved(path) ==
    IF IsAbs(path) THEN path ELSE Join(install.config.GemDir, path)

NthInstalled(n) ==
    CHOOSE k \in InstalledIndexes :
        Cardinality({ j \in InstalledIndexes : j < k }) = n - 1

C13_VersionGating ==
    InstallSucceeded =>
        LET bases == gatherBaseDirectories(install.config)
            ver == GatedDirectory(install.config.RubyVersion)
            places(rd) ==
                { Join(bases[b], rd) : b \in 1..Len(bases) }
                \cup (IF ver = <<>> THEN {}
                      ELSE { Join(Join(bases[b], ver), rd) : b \in 1..Len(bases) })
        IN /\ \A k \in InstalledIndexes :
                { install.copies[c].dst :
                     c \in { c \in 1..Len(install.copies) :
                               install.copies[c].src =
                                   Join(install.extensionDir, install.built[k]) } }
                = places(RelDestOf(k))
           /\ install.dirs = UNION { { Dir(d) : d \in places(RelDestOf(k)) } :
                                     k \in InstalledIndexes }
           /\ Len(install.paths) = Cardinality(InstalledIndexes)
           /\ \A n \in 1..Len(install.paths) :
                Resolved(install.paths[n]) =
                    Join(IF ver = <<>> THEN bases[1] ELSE Join(bases[1], ver),
                         RelDestOf(NthInstalled(n)))

C13_Witness ==
    /\ InstallSucceeded
    /\ install.config.RubyVersion = <<"3", ".", "1", "0">>
    /\ Len(gatherBaseDirectories(install.config)) = 2
    /\ Len(install.copies) = 4
    /\ Len(install.paths) = 1

\* C14: a native artifact's relative install path is the declared module name
\* M with the artifact's suffix appended unless M already ends with it; with
\* no module name declared it is the descriptor's directory below "ext/" with
\* the artifact's base name appended unless the directory already ends with
\* it (the artifact's file name alone when the descriptor lies in "ext/").
\* Read for derived paths that need no sanitizing.
DeclaredModule ==
    IF /\ install.descriptor.readable
       /\ install.descriptor.call \in {"paren", "bare"}
    THEN install.descriptor.name
    ELSE <<>>

\* the descriptor's directory, relative to the "ext/" root
DescriptorDirectory ==
    LET dir == Dir(install.extensionFile)
    IN IF dir \o <<Sep>> = ExtPrefix THEN <<>> ELSE TrimPrefix(dir, ExtPrefix)

NeedsNoSanitizing(path) ==
    /\ Clean(path) = path
    /\ path # <<".">>
    /\ ~HasPrefix(path, DotDot)

\* the path the two rules give for artifact k, before any sanitizing
DerivedPath(k) ==
    LET rel == install.built[k]
        suffix == Ext(rel)
        baseName == TrimSuffix(Base(rel), suffix)
        M == DeclaredModule
        D == DescriptorDirectory
    IN IF M # <<>>
       THEN IF HasSuffix(M, suffix) THEN M ELSE M \o suffix
       ELSE IF D = <<>> THEN baseName \o suffix
       ELSE IF HasSuffix(D, baseName) THEN D \o suffix
       ELSE D \o <<Sep>> \o baseName \o suffix

C14_PathFromModuleOrDirectory ==
    install.pc = "copy" =>
        (NeedsNoSanitizing(DerivedPath(install.k))
            => install.relDest = DerivedPath(install.k))

\* C15 as claimed: a derived relative path that would leave the package root
\* collapses to the artifact's base name, and the path used for copying holds
\* no parent-directory segment.
WouldEscape(path) ==
    \/ Clean(path) = DotDot
    \/ HasPrefix(Clean(path), DotDot \o <<Sep>>)

NoParentSegment(path) ==
    \A a \in 1..Len(path), b \in 1..Len(path) :
        (/\ b = a + 1
         /\ path[a] = "." /\ path[b] = "."
         /\ a = 1 \/ path[a - 1] = Sep)
        => (b < Len(path) /\ path[b + 1] # Sep)

OntoSource(copy) == copy.dst \in DOMAIN install.before

C16_PrimaryFirstAbortNoRollback ==
    LET targets == installTargets(install.config)
        dests == <<targets.primary>> \o targets.additional
        n == Len(dests)
        last == Len(install.copies)
    IN /\ \A c \in 1..last :
            LET a == NthInstalled(((c - 1) \div n) + 1)
                copy == install.copies[c]
            IN /\ copy.src = Join(install.extensionDir, install.built[a])
               /\ copy.dst = Join(dests[((c - 1) % n) + 1], RelDestOf(a))
               /\ ~copy.ok => /\ c = last
                              /\ install.pc = "returned"
                              /\ install.err # ""
                              /\ install.paths = <<>>
               /\ (copy.ok /\ \A later \in (c + 1)..last :
                                 install.copies[later].dst # copy.dst)
                     => /\ copy.dst \in DOMAIN install.files
                        /\ (\A w \in 1..last : ~OntoSource(install.copies[w]))
                              => install.files[copy.dst] = install.before[copy.src]
       /\ install.err # "" => last > 0 /\ ~install.copies[last].ok

C16_Witness ==
    /\ install.err # ""
    /\ Len(install.copies) = 4
    /\ install.copies[3].src # install.copies[1].src
    /\ install.copies[4].dst \notin DOMAIN install.files
    /\ Cardinality(DOMAIN install.files) = 5

\* C17: CheckRequiredTools returns no error exactly when every requirement
\* that is not optional has its primary tool or one of its alternatives
\* available; an unsatisfied optional requirement causes no error.
Satisfied(req) ==
    \/ req.Name \in toolCheck.path
    \/ \E a \in 1..Len(req.Alternatives) : req.Alternatives[a] \in toolCheck.path

MissingRequired ==
    { k \in 1..Len(toolCheck.requirements) :
         /\ ~toolCheck.requirements[k].Optional
         /\ ~Satisfied(toolCheck.requirements[k]) }

C17_NoErrorIffRequiredSatisfied ==
    toolCheck.called => (toolCheck.err = <<>> <=> MissingRequired = {})

C17_Witness ==
    /\ toolCheck.called
    /\ toolCheck.err = <<>>
    /\ \E k \in 1..Len(toolCheck.requirements) :
          LET req == toolCheck.requirements[k]
          IN /\ ~req.Optional
             /\ req.Name \notin toolCheck.path
             /\ Satisfied(req)
    /\ \E k \in 1..Len(toolCheck.requirements) :
          /\ toolCheck.requirements[k].Optional
          /\ ~Satisfied(toolCheck.requirements[k])

\* C18: one missing required tool is reported on its own; two or more are
\* reported in one error that names each missing required tool, with its
\* purpose, in requirement order, and names no other tool.
NthMissing(n) ==
    CHOOSE k \in MissingRequired :
        Cardinality({ j \in MissingRequired : j < k }) = n - 1

NamedTools == SelectSeq(toolCheck.err, LAMBDA piece : piece \in ToolNames)

PurposeFollows(req) ==
    req.Purpose # "" =>
        \E t \in 1..Len(toolCheck.err) :
            /\ toolCheck.err[t] = req.Name
            /\ t + 2 <= Len(toolCheck.err)
            /\ toolCheck.err[t + 2] = req.Purpose

C18_SingleOrAggregatedInOrder ==
    (toolCheck.called /\ MissingRequired # {}) =>
        /\ Len(NamedTools) = Cardinality(MissingRequired)
        /\ \A n \in 1..Len(NamedTools) :
              /\ NamedTools[n] = toolCheck.requirements[NthMissing(n)].Name
              /\ PurposeFollows(toolCheck.requirements[NthMissing(n)])
        /\ IF Cardinality(MissingRequired) = 1
           THEN /\ toolCheck.err[1] \in ToolNames
                /\ toolCheck.err[Len(toolCheck.err)] = " not found in PATH"
           ELSE toolCheck.err[1] = "missing required tools: "

C18_Witness ==
    /\ toolCheck.called
    /\ Cardinality(MissingRequired) = 2
    /\ NamedTools = <<"cmake", "make">>
    /\ \E k \in 1..Len(toolCheck.requirements) :
          Satisfied(toolCheck.requirements[k])

\* C19: the registry made by NewBuilderFactory holds, in this order, the
\* ExtConf, Configure, Rake, CMake, Cargo and Makefile adapters, so that a
\* descriptor named 'Makefile' resolves to the Makefile adapter and every
\* built-in adapter is reachable through it.
RegisteredNames == [k \in 1..Len(builders) |-> builders[k].name]

MakefileName == <<"M", "a", "k", "e", "f", "i", "l", "e">>

C19_DefaultRegistryReachesMakefile ==
    builders # <<>> =>
        /\ Len(builders) >= 6
        /\ SubSeq(RegisteredNames, 1, 6) =
              <<"ExtConf", "Configure", "Rake", "CMake", "Cargo", "Makefile">>
        /\ (lookup.done /\ Base(lookup.path) = MakefileName) =>
              /\ lookup.found
              /\ builders[lookup.index].name = "Makefile"

\* C20: when the context is cancelled during BuildAllExtensions, the call
\* returns with a result carrying the context's error added last, and the
\* error it returns is the context's error.
C20_CancellationReported ==
    (pc = "returned" /\ extensions # <<>> /\ ctxErr # NoErr) =>
        /\ results # <<>>
        /\ results[Len(results)] = FailedResult(ctxErr)
        /\ firstError = ctxErr

\* C21: a BuildConfig whose literal does not set StopOnFailure makes
\* BuildAllExtensions stop after the first failed extension: the results hold
\* no entry after the first failure.
C21_StopsByDefault ==
    (pc = "returned" /\ "StopOnFailure" \notin DOMAIN literal /\ ctxErr = NoErr) =>
        \A k \in 1..(Len(results) - 1) : results[k].Success

\* C22: the base directory of the primary destination is DestPath when it is
\* set, otherwise LibDir when it is set, otherwise <root>/lib; a relative
\* override is resolved against the package root; and <root>/lib is a base
\* directory only when neither override is set (or an override names it).
AgainstRoot(dir) ==
    IF IsAbs(dir) THEN Clean(dir) ELSE Clean(Join(install.config.GemDir, dir))

RootLib == Clean(Join(install.config.GemDir, LibName))

ChosenBase ==
    IF install.config.DestPath # <<>> THEN AgainstRoot(install.config.DestPath)
    ELSE IF install.config.LibDir # <<>> THEN AgainstRoot(install.config.LibDir)
    ELSE RootLib

C22_BaseByPriority ==
    InstallSucceeded =>
        LET ver == GatedDirectory(install.config.RubyVersion)
            primary == IF ver = <<>> THEN ChosenBase ELSE Join(ChosenBase, ver)
            overrides == { AgainstRoot(d) :
                             d \in {install.config.DestPath, install.config.LibDir}
                                   \ {<<>>} }
        IN /\ install.copies[1].dst = Join(primary, RelDestOf(NthInstalled(1)))
           /\ (\E c \in 1..Len(install.copies) :
                  HasPrefix(install.copies[c].dst, RootLib \o <<Sep>>))
                 => \/ overrides = {}
                    \/ \E o \in overrides : HasPrefix(RootLib \o <<Sep>>, o \o <<Sep>>)

\* C23: no directory occurs twice among the primary and the additional
\* destinations of an Install call, so no artifact is copied twice to the
\* same path.
C23_DestinationsDistinct ==
    \A c \in 1..Len(install.copies), d \in 1..Len(install.copies) :
        (c < d /\ install.copies[c].src = install.copies[d].src)
            => install.copies[c].dst # install.copies[d].dst

\* C24: a native artifact with no regular file at its place is passed over:
\* nothing is copied for it, it is not in the returned list, it causes no
\* error, and the other native artifacts are installed.
SourceOf(k) == Join(install.extensionDir, install.built[k])

SkippedIndexes ==
    { k \in 1..Len(install.built) :
         /\ isNativeLibrary(install.built[k])
         /\ SourceOf(k) \notin DOMAIN install.before }

Building == pc \notin {"idle", "loop", "returned"}

AllSucceeded ==
    /\ Len(results) = Len(extensions)
    /\ \A k \in 1..Len(results) : results[k].Success

C26_NilErrorIffAllSucceeded ==
    pc = "returned" =>
        /\ firstError = NoErr <=> AllSucceeded
        /\ ctxErr # NoErr => firstError # NoErr

\* C27: a Register call keeps the adapters registered before it in their
\* places, and every path that resolved before the call resolves to the same
\* adapter after it.
C27_RegisterKeepsResolutions ==
    [][builders' # builders =>
         /\ Len(builders') = Len(builders) + 1
         /\ SubSeq(builders', 1, Len(builders)) = builders
         /\ \A p \in LookupPaths :
               LET before == BuilderFor(builders, p)
                   after == BuilderFor(builders', p)
               IN before.found =>
                     /\ after.found
                     /\ builders'[after.index] = builders[before.index]]_vars

C27_Witness ==
    /\ builders = <<AdapterZ, AdapterY>>
    /\ lookup.done
    /\ lookup.found
    /\ Base(lookup.path) = FileB
    /\ builders[lookup.index] = AdapterZ

\* C28: Install leaves every source artifact as it was: after any step of it
\* each source file still exists with the content it had before.
C28_SourcesUntouched ==
    \A p \in DOMAIN install.before :
        /\ p \in DOMAIN install.files
        /\ install.files[p] = install.before[p]

\* C29: within one Install call different source artifacts are copied to
\* different destination files, and no path is returned twice.
C29_DistinctArtifactsDistinctPaths ==
    /\ \A c \in 1..Len(install.copies), d \in 1..Len(install.copies) :
          install.copies[c].src # install.copies[d].src
              => install.copies[c].dst # install.copies[d].dst
    /\ \A m \in 1..Len(install.paths), n \in 1..Len(install.paths) :
          m # n => install.paths[m] # install.paths[n]

\* C30: when the built list mixes native and non-native artifacts, all native
\* ones regular files, and a destination exists, the returned list has one
\* entry per native artifact, in input order, each the place it was installed
\* at; the non-native artifacts are not in it.
NativeSuffix(path) ==
    \E suffix \in { <<".", "s", "o">>, <<".", "b", "u", "n", "d", "l", "e">>,
                    <<".", "d", "l", "l">>, <<".", "d", "y", "l", "i", "b">> } :
        HasSuffix(ToLower(path), suffix)

NativeIndexes == { k \in 1..Len(install.built) : NativeSuffix(install.built[k]) }

MixedInstall ==
    /\ InstallReturned
    /\ install.err = ""
    /\ NativeIndexes # {}
    /\ NativeIndexes # 1..Len(install.built)
    /\ \A k \in NativeIndexes : SourceOf(k) \in DOMAIN install.before
    /\ gatherBaseDirectories(install.config) # <<>>

NthNative(n) ==
    CHOOSE k \in NativeIndexes : Cardinality({ j \in NativeIndexes : j < k }) = n - 1

\* As claimed: one entry per input artifact.
C30_OneEntryPerArtifact == MixedInstall => Len(install.paths) = Len(install.built)

C30_OneEntryPerNativeArtifact ==
    MixedInstall =>
        /\ Len(install.paths) = Cardinality(NativeIndexes)
        /\ \A n \in 1..Len(install.paths) :
              \E c \in 1..Len(install.copies) :
                  /\ install.copies[c].src = SourceOf(NthNative(n))
                  /\ install.copies[c].dst = Resolved(install.paths[n])

C30_Witness ==
    /\ MixedInstall
    /\ install.built = << <<"a", ".", "t", "x", "t">>, <<"s", "/", "q", ".", "S", "O">> >>
    /\ Len(install.paths) = 1

====
